---- MODULE Spec2Model ----
(***************************************************************************)
(* Model of denonavr/soundmode.py: the sound mode handler of a Denon AVR   *)
(* receiver (class DenonAVRSoundMode).                                     *)
(*                                                                         *)
(* Strings are sequences of one-character strings, so that str.upper(),    *)
(* str.rstrip() and string concatenation are computed character by         *)
(* character.  An Optional[str] is a record: None, or Some(s).             *)
(* Optional[bool] fields hold "None", "True" or "False".                   *)
(*                                                                         *)
(* Coroutines suspend only where they await the transport.  A call is a    *)
(* stack of frames [fn, line]; line is the await the frame is stopped at.  *)
(* One step runs the coroutine from the call (or from the transport's      *)
(* answer) to the next transport await, or to its end.                     *)
(***************************************************************************)
EXTENDS Integers, Sequences, FiniteSets, TLC

VARIABLES
    device,               \* self._device: use_avr_2016_update, receiver
    created,              \* the instances sound_mode_factory has created
    SOUND_MODE_MAPPING,   \* the module-level OrderedDict every instance uses
    _support_sound_mode,  \* per instance: "None" | "True" | "False"
    _sound_mode_raw,      \* per instance: None | Some(string)
    _sound_mode_map_rev,  \* per instance: dict upper(raw) -> sound mode
    _is_setup,            \* per instance: BOOLEAN
    call,                 \* the handler call in progress, or the last one
    call2,                \* an async_update task started while call is pending
    held                  \* the structure a caller got from an accessor

vars == <<device, created, SOUND_MODE_MAPPING, _support_sound_mode, _sound_mode_raw,
          _sound_mode_map_rev, _is_setup, call, call2, held>>

-----------------------------------------------------------------------------
(* Bounds *)

\* The device pads a reported value with up to MaxPad trailing blanks.
MaxPad == 1

\* The names of the resolver instances sound_mode_factory may create.
Instances == {1, 2}

\* A caller changes a structure it got from an accessor up to MaxMutations
\* times.
MaxMutations == 2

-----------------------------------------------------------------------------
(* Strings *)

None == [some |-> FALSE, s |-> <<>>]
Some(str) == [some |-> TRUE, s |-> str]

LowerCase == <<"a","b","c","d","e","f","g","h","i","j","k","l","m",
               "n","o","p","q","r","s","t","u","v","w","x","y","z">>
UpperCase == <<"A","B","C","D","E","F","G","H","I","J","K","L","M",
               "N","O","P","Q","R","S","T","U","V","W","X","Y","Z">>

Letters == 1..Len(LowerCase)
UpperOf == [c \in {LowerCase[k] : k \in Letters} |->
               UpperCase[CHOOSE k \in Letters : LowerCase[k] = c]]
LowerOf == [c \in {UpperCase[k] : k \in Letters} |->
               LowerCase[CHOOSE k \in Letters : UpperCase[k] = c]]

char_upper(c) == IF c \in DOMAIN UpperOf THEN UpperOf[c] ELSE c

char_lower(c) == IF c \in DOMAIN LowerOf THEN LowerOf[c] ELSE c

\* str.upper()
upper(str) == [k \in 1..Len(str) |-> char_upper(str[k])]

\* str.lower(), used only to build the inputs
lower(str) == [k \in 1..Len(str) |-> char_lower(str[k])]

\* str.rstrip(): drop the trailing whitespace
RECURSIVE rstrip(_)
rstrip(str) ==
    IF str # <<>> /\ str[Len(str)] = " "
    THEN rstrip(SubSeq(str, 1, Len(str) - 1))
    ELSE str

\* rstrip_string without the rstrip
rstrip_string_as_is(value) == value

\* the converter of _sound_mode_raw
rstrip_string(value) ==
    IF ~value.some THEN value ELSE Some(rstrip(value.s))

\* str.endswith
endswith(str, suffix) ==
    /\ Len(suffix) <= Len(str)
    /\ SubSeq(str, Len(str) - Len(suffix) + 1, Len(str)) = suffix

RECURSIVE blanks(_)
blanks(n) == IF n = 0 THEN <<>> ELSE <<" ">> \o blanks(n - 1)

-----------------------------------------------------------------------------
(* Constants of const.py *)

ALL_ZONE_STEREO ==
    <<"A","L","L"," ","Z","O","N","E"," ","S","T","E","R","E","O">>
STEREO == <<"S","T","E","R","E","O">>
AUTO == <<"A","U","T","O">>
PURE_DIRECT == <<"P","U","R","E"," ","D","I","R","E","C","T">>

AVR == "avr"
AVR_X == "avr-x"
AVR_X_2016 == "avr-x-2016"

\* The seed table: sound mode -> raw sound modes of the receiver.
SOUND_MODE_MAPPING_default ==
    << [name |-> AUTO, aliases |-> << <<"N","o","n","e">> >>],
       [name |-> PURE_DIRECT,
        aliases |-> << <<"P","U","R","E","_","D","I","R","E","C","T">>,
                       PURE_DIRECT >>],
       [name |-> STEREO, aliases |-> << STEREO >>],
       [name |-> ALL_ZONE_STEREO, aliases |-> << ALL_ZONE_STEREO >>] >>

\* self._device.urls
command_sel_sound_mode == <<"?","M","S">>
command_set_all_zone_stereo == <<"?","M","N">>
ZST_ON == <<"Z","S","T"," ","O","N">>
ZST_OFF == <<"Z","S","T"," ","O","F","F">>

-----------------------------------------------------------------------------
(* Dictionaries *)

dict_set(d, k, v) == [x \in (DOMAIN d) \cup {k} |-> IF x = k THEN v ELSE d[x]]

odict_keys(od) == [k \in 1..Len(od) |-> od[k].name]

odict_has(od, key) == \E k \in 1..Len(od) : od[k].name = key

odict_get(od, key) == od[CHOOSE k \in 1..Len(od) : od[k].name = key].aliases

\* OrderedDict.__setitem__: an existing key keeps its place, a new key is
\* appended.
odict_set(od, key, value) ==
    IF odict_has(od, key)
    THEN [k \in 1..Len(od) |->
             IF od[k].name = key THEN [name |-> key, aliases |-> value]
             ELSE od[k]]
    ELSE Append(od, [name |-> key, aliases |-> value])

RECURSIVE rev_map_sublist(_, _, _)
rev_map_sublist(mode_map_rev, matched_mode, sublist) ==
    IF sublist = <<>> THEN mode_map_rev
    ELSE rev_map_sublist(
             dict_set(mode_map_rev, upper(Head(sublist)), matched_mode),
             matched_mode, Tail(sublist))

RECURSIVE rev_map_items(_, _)
rev_map_items(mode_map_rev, mode_map) ==
    IF mode_map = <<>> THEN mode_map_rev
    ELSE rev_map_items(
             rev_map_sublist(mode_map_rev, Head(mode_map).name,
                             Head(mode_map).aliases),
             Tail(mode_map))

sound_mode_rev_map_factory(mode_map) == rev_map_items(<<>>, mode_map)

\* del d[key]
odict_del(od, key) == SelectSeq(od, LAMBDA e : e.name # key)

dict_del(d, key) == [x \in (DOMAIN d) \ {key} |-> d[x]]

\* d[key].append(alias), for a key of d
odict_append(od, key, alias) ==
    [k \in 1..Len(od) |->
        IF od[k].name = key
        THEN [name |-> key, aliases |-> Append(od[k].aliases, alias)]
        ELSE od[k]]

\* copy.copy in place of deepcopy: a new dictionary with the same values
deepcopy_shallow(obj) ==
    [shares_dict |-> FALSE, shares_values |-> TRUE, value |-> obj]

\* copy.deepcopy: the result shares neither the dictionary nor the values in
\* it with obj.
deepcopy(obj) ==
    [shares_dict |-> FALSE, shares_values |-> FALSE, value |-> obj]

-----------------------------------------------------------------------------
(* The matcher and the accessors *)

\* match_sound_mode without the test of lines 150 and 151
match_sound_mode_unguarded(raw, mode_map, mode_map_rev, sound_mode_raw) ==
    IF upper(sound_mode_raw) \in DOMAIN mode_map_rev
    THEN [map |-> mode_map, rev |-> mode_map_rev,
          ret |-> Some(mode_map_rev[upper(sound_mode_raw)]), log |-> <<>>]
    ELSE LET smr_up == upper(sound_mode_raw)
             new_map == odict_set(mode_map, smr_up, <<smr_up>>)
         IN  [map |-> new_map, rev |-> sound_mode_rev_map_factory(new_map),
              ret |-> Some(sound_mode_raw),
              log |-> <<"warning: Not able to match sound mode">>]

\* match_sound_mode of an instance whose fields are raw, mode_map and
\* mode_map_rev; the result carries the fields as the call leaves them.
match_sound_mode(raw, mode_map, mode_map_rev, sound_mode_raw) ==
    IF ~raw.some
    THEN [map |-> mode_map, rev |-> mode_map_rev, ret |-> None, log |-> <<>>]
    ELSE IF upper(sound_mode_raw) \in DOMAIN mode_map_rev
    THEN [map |-> mode_map, rev |-> mode_map_rev,
          ret |-> Some(mode_map_rev[upper(sound_mode_raw)]), log |-> <<>>]
    ELSE LET smr_up == upper(sound_mode_raw)
             new_map == odict_set(mode_map, smr_up, <<smr_up>>)
         IN  [map |-> new_map, rev |-> sound_mode_rev_map_factory(new_map),
              ret |-> Some(sound_mode_raw),
              log |-> <<"warning: Not able to match sound mode">>]

\* property sound_mode
sound_mode(raw, mode_map, mode_map_rev) ==
    match_sound_mode(raw, mode_map, mode_map_rev, raw.s)

\* property sound_mode_list
sound_mode_list(mode_map) == odict_keys(mode_map)

\* property sound_mode_map
sound_mode_map(mode_map) == deepcopy(mode_map)

\* property sound_mode_map_rev
sound_mode_map_rev(mode_map_rev) == deepcopy(mode_map_rev)

-----------------------------------------------------------------------------
(* Coroutines *)

NoExc == [type |-> "none", msg |-> "none"]
\* raised by the transports when the requested tag is not on the page
ProcessingError == [type |-> "AvrProcessingError", msg |-> "transport"]
\* any other failure of a transport
NetworkError == [type |-> "AvrNetworkError", msg |-> "transport"]
\* raised by async_update_sound_mode itself
NotSetupError == [type |-> "AvrProcessingError", msg |-> "update method not set"]

Frame(fn, line) == [fn |-> fn, line |-> line]
Top(stack) == stack[Len(stack)]
Pop(stack) == SubSeq(stack, 1, Len(stack) - 1)

\* The coroutine calls the transport and suspends in the frames pushed.
Issue(m, frames, api, arg) ==
    [m EXCEPT !.stack = @ \o frames,
              !.calls = Append(@, [api |-> api, arg |-> arg])]

\* No caller in this module catches what reaches it.
Raise(m, e) == [m EXCEPT !.stack = <<>>, !.exc = e]

RECURSIVE async_update_sound_mode(_)
RECURSIVE return_to_caller(_)

\* async_update_sound_mode without the test of the support flag
async_update_sound_mode_always_probes(m) ==
    IF device.use_avr_2016_update = "True"
    THEN Issue(m, <<Frame("async_update_sound_mode", 124)>>,
               "appcommand", <<"GetSurroundModeStatus">>)
    ELSE IF device.use_avr_2016_update = "False"
    THEN Issue(m, <<Frame("async_update_sound_mode", 133)>>,
               "status_xml", <<"status_xml_attrs_01">>)
    ELSE Raise(m, NotSetupError)

\* async_update_sound_mode with "else" in place of "elif ... is False"
async_update_sound_mode_else_legacy(m) ==
    IF device.use_avr_2016_update = "True"
    THEN Issue(m, <<Frame("async_update_sound_mode", 124)>>,
               "appcommand", <<"GetSurroundModeStatus">>)
    ELSE IF m.support = "False"
         THEN return_to_caller(m)
         ELSE Issue(m, <<Frame("async_update_sound_mode", 133)>>,
                    "status_xml", <<"status_xml_attrs_01">>)

\* async_update_sound_mode from its first line to its first await;
\* m.stack holds the frames of the callers.
async_update_sound_mode(m) ==
    IF device.use_avr_2016_update = "True"
    THEN Issue(m, <<Frame("async_update_sound_mode", 124)>>,
               "appcommand", <<"GetSurroundModeStatus">>)
    ELSE IF device.use_avr_2016_update = "False"
    THEN IF m.support = "False"
         THEN return_to_caller(m)
         ELSE Issue(m, <<Frame("async_update_sound_mode", 133)>>,
                    "status_xml", <<"status_xml_attrs_01">>)
    ELSE Raise(m, NotSetupError)

\* A callee returned normally: the caller on top of m.stack goes on after
\* its await.
return_to_caller(m) ==
    IF m.stack = <<>> THEN m
    ELSE LET f == Top(m.stack)
             rest == Pop(m.stack)
         IN  CASE f.line = 101 ->  \* async_setup, after line 101
                    return_to_caller([m EXCEPT !.is_setup = TRUE,
                                               !.stack = rest])
               [] f.line = 112 ->  \* async_update, after line 112
                    async_update_sound_mode(
                        [m EXCEPT !.stack = Append(rest,
                                                Frame("async_update", 115))])
               [] OTHER -> return_to_caller([m EXCEPT !.stack = rest])

\* async_setup up to its first await
async_setup(m) ==
    LET m1 == [m EXCEPT !.calls = Append(@,
                   [api |-> "add_appcommand_update_tag",
                    arg |-> <<"GetSurroundModeStatus">>])]
    IN  IF device.receiver \in {AVR_X, AVR_X_2016}
        THEN return_to_caller([m1 EXCEPT !.support = "True",
                                         !.is_setup = TRUE])
        ELSE async_update_sound_mode(
                 [m1 EXCEPT !.stack = Append(@, Frame("async_setup", 101))])

\* async_update without the test of _is_setup
async_update_always_setup(m) ==
    async_setup([m EXCEPT !.stack = <<Frame("async_update", 112)>>])

\* async_update up to its first await
async_update(m) ==
    IF m.is_setup = FALSE
    THEN async_setup([m EXCEPT !.stack = <<Frame("async_update", 112)>>])
    ELSE async_update_sound_mode(
             [m EXCEPT !.stack = <<Frame("async_update", 115)>>])

\* The body of _async_set_all_zone_stereo up to its await.
_async_set_all_zone_stereo(m, zst_on) ==
    Issue(m, <<Frame("_async_set_all_zone_stereo", 175)>>, "get_command",
          command_set_all_zone_stereo \o (IF zst_on THEN ZST_ON ELSE ZST_OFF))

\* async_set_sound_mode without the all-zone-stereo case
async_set_sound_mode_select_only(m, target) ==
    LET r == sound_mode(m.raw, m.map, m.rev)
        m1 == [m EXCEPT !.map = r.map, !.rev = r.rev, !.log = @ \o r.log]
    IN  Issue(m1, <<Frame("async_set_sound_mode", 233)>>, "get_command",
              command_sel_sound_mode \o target)

\* async_set_sound_mode up to its first await.  Line 226 calls
\* _async_set_all_zone_stereo(False) without await: the coroutine object is
\* created and dropped, its body never runs.
async_set_sound_mode(m, target) ==
    IF target = ALL_ZONE_STEREO
    THEN _async_set_all_zone_stereo(
             [m EXCEPT !.stack = <<Frame("async_set_sound_mode", 222)>>],
             TRUE)
    ELSE LET r == sound_mode(m.raw, m.map, m.rev)
             m1 == [m EXCEPT !.map = r.map, !.rev = r.rev, !.log = @ \o r.log]
         IN  Issue(m1, <<Frame("async_set_sound_mode", 233)>>, "get_command",
                   command_sel_sound_mode \o target)

\* "except Exception" in place of "except AvrProcessingError"
except_AvrProcessingError_any(exc) == TRUE

\* The except clauses of lines 135 and 139 catch exc.
except_AvrProcessingError(exc) == exc.type = "AvrProcessingError"

\* the handler without the assignment of line 141
sound_mode_not_supported_flag_kept(m) ==
    [m EXCEPT !.log = Append(@, "info: Sound mode not supported")]

\* The handler of the second AvrProcessingError, lines 139 to 141.
sound_mode_not_supported(m) ==
    [m EXCEPT !.support = "False",
              !.log = Append(@, "info: Sound mode not supported")]

\* the try statement of lines 132 to 142 with the read of line 137 after
\* the except clause instead of inside it
try_status_xml_attrs_01_then_02(m, o) ==
    IF o.exc = NoExc \/ except_AvrProcessingError(o.exc)
    THEN Issue([m EXCEPT !.stack = Pop(m.stack),
                         !.raw = IF o.exc = NoExc
                                 THEN rstrip_string(Some(o.val)) ELSE @],
               <<Frame("async_update_sound_mode", 137)>>,
               "status_xml", <<"status_xml_attrs_02">>)
    ELSE Raise(m, o.exc)

\* The transport answers the read of line 133 with o: the rest of the try
\* statement of lines 132 to 142, up to the next await.
try_status_xml_attrs_01(m, o) ==
    IF o.exc = NoExc
    THEN return_to_caller([m EXCEPT !.raw = rstrip_string(Some(o.val)),
                                    !.stack = Pop(m.stack),
                                    !.support = "True"])
    ELSE IF except_AvrProcessingError(o.exc)
    THEN Issue([m EXCEPT !.stack = Pop(m.stack)],
               <<Frame("async_update_sound_mode", 137)>>,
               "status_xml", <<"status_xml_attrs_02">>)
    ELSE Raise(m, o.exc)

\* The transport answers the await on top of m.stack with o.
transport_answer(m, o) ==
    LET f == Top(m.stack)
        rest == Pop(m.stack)
        stored == [m EXCEPT !.raw = rstrip_string(Some(o.val)),
                            !.stack = rest]
    IN  CASE f.line = 124 ->
               IF o.exc = NoExc THEN return_to_caller(stored)
               ELSE Raise(m, o.exc)
          [] f.line = 133 -> try_status_xml_attrs_01(m, o)
          [] f.line = 137 ->
               IF o.exc = NoExc
               THEN return_to_caller([stored EXCEPT !.support = "True"])
               ELSE IF except_AvrProcessingError(o.exc)
               THEN return_to_caller(
                        sound_mode_not_supported([m EXCEPT !.stack = rest]))
               ELSE Raise(m, o.exc)
          [] OTHER ->
               IF o.exc = NoExc
               THEN return_to_caller([m EXCEPT !.stack = rest])
               ELSE Raise(m, o.exc)

-----------------------------------------------------------------------------
(* Inputs *)

\* What the receiver reports as its sound mode, before padding.
DeviceModes ==
    { <<"S","t","e","r","e","o">>, ALL_ZONE_STEREO, <<"D","o","l","b","y">> }

DeviceValues == { b \o blanks(n) : b \in DeviceModes, n \in 0..MaxPad }

\* The answers of the transport to a read, and to a command.
ReadAnswers ==
    { [exc |-> NoExc, val |-> v] : v \in DeviceValues }
    \cup { [exc |-> e, val |-> <<>>] : e \in {ProcessingError, NetworkError} }

CommandAnswers == { [exc |-> e, val |-> <<>>] : e \in {NoExc, NetworkError} }

\* The strings callers hand to match_sound_mode.
MatchArgs ==
    { STEREO, lower(STEREO), <<"N","o","n","e">>, upper(<<"N","o","n","e">>),
      <<"D","o","l","b","y">>, upper(<<"D","o","l","b","y">>), AUTO }

\* The names callers hand to async_set_sound_mode.
Targets == { ALL_ZONE_STEREO, STEREO, AUTO }

-----------------------------------------------------------------------------
(* State machine *)

IdleCall ==
    [op |-> "none", inst |-> 1, arg |-> <<>>, stack |-> <<>>, calls |-> <<>>,
     answers |-> <<>>, delivered |-> None, exc |-> NoExc, ret |-> None,
     log |-> <<>>, pre_support |-> "None", pre_raw |-> None]

NothingHeld ==
    [kind |-> "none", inst |-> 1, mutations |-> 0, shares_dict |-> FALSE,
     shares_values |-> FALSE, map |-> <<>>, rev |-> <<>>]

\* DenonAVRSoundMode(device=...): the attribute defaults of an instance.
\* _sound_mode_map is SOUND_MODE_MAPPING itself, not a copy of it.
Constructed ==
    /\ SOUND_MODE_MAPPING = SOUND_MODE_MAPPING_default
    /\ _support_sound_mode = [i \in Instances |-> "None"]
    /\ _sound_mode_raw = [i \in Instances |-> None]
    /\ _sound_mode_map_rev =
           [i \in Instances |->
               sound_mode_rev_map_factory(SOUND_MODE_MAPPING_default)]
    /\ _is_setup = [i \in Instances |-> FALSE]
    /\ call = IdleCall
    /\ call2 = IdleCall
    /\ held = NothingHeld

\* One receiver with one resolver.
Init ==
    /\ device \in [use_avr_2016_update : {"True", "False", "None"},
                   receiver : {AVR, AVR_X, AVR_X_2016}]
    /\ created = {1}
    /\ Constructed

\* One AVR-X 2016 receiver whose zones have a resolver each.
InitZones ==
    /\ device = [use_avr_2016_update |-> "True", receiver |-> AVR_X_2016]
    /\ created = Instances
    /\ Constructed

\* The fields of instance i as a coroutine sees them when it is called.
Self(i) ==
    [support |-> _support_sound_mode[i], raw |-> _sound_mode_raw[i],
     is_setup |-> _is_setup[i], map |-> SOUND_MODE_MAPPING,
     rev |-> _sound_mode_map_rev[i],
     stack |-> <<>>, calls |-> <<>>, exc |-> NoExc, log |-> <<>>]

\* Write the fields back.
Store(i, m) ==
    /\ _support_sound_mode' = [_support_sound_mode EXCEPT ![i] = m.support]
    /\ _sound_mode_raw' = [_sound_mode_raw EXCEPT ![i] = m.raw]
    /\ _is_setup' = [_is_setup EXCEPT ![i] = m.is_setup]
    /\ SOUND_MODE_MAPPING' = m.map
    /\ _sound_mode_map_rev' = [_sound_mode_map_rev EXCEPT ![i] = m.rev]
    /\ UNCHANGED <<device, created>>

\* A caller starts handler op on instance i; the callers serialize their
\* calls.
Begin(i, op, arg, m) ==
    /\ call.stack = <<>>
    /\ call2.stack = <<>>
    /\ i \in created
    /\ Store(i, m)
    /\ UNCHANGED <<call2, held>>
    /\ call' = [op |-> op, inst |-> i, arg |-> arg, stack |-> m.stack,
                calls |-> m.calls, answers |-> <<>>,
                delivered |-> None, exc |-> m.exc, ret |-> None,
                log |-> m.log,
                pre_support |-> _support_sound_mode[i],
                pre_raw |-> _sound_mode_raw[i]]

CallSetup(i) == Begin(i, "async_setup", <<>>, async_setup(Self(i)))

CallUpdate(i) == Begin(i, "async_update", <<>>, async_update(Self(i)))

CallUpdateSoundMode(i) ==
    Begin(i, "async_update_sound_mode", <<>>,
          async_update_sound_mode(Self(i)))

CallSetSoundMode(i, target) ==
    Begin(i, "async_set_sound_mode", target,
          async_set_sound_mode(Self(i), target))

\* The transport answers the pending await of the call in progress.
TransportAnswer(o) ==
    /\ call.stack # <<>>
    /\ o \in (IF Top(call.stack).line \in {124, 133, 137}
              THEN ReadAnswers ELSE CommandAnswers)
    /\ LET i == call.inst
           m == transport_answer(
                    [Self(i) EXCEPT !.stack = call.stack,
                                    !.calls = call.calls,
                                    !.log = call.log], o)
       IN  /\ Store(i, m)
           /\ UNCHANGED <<call2, held>>
           /\ call' = [call EXCEPT !.stack = m.stack, !.calls = m.calls,
                                   !.exc = m.exc, !.log = m.log,
                                   !.answers = Append(@, o.exc.type),
                                   !.delivered =
                                       IF o \in ReadAnswers /\ o.exc = NoExc
                                       THEN Some(o.val) ELSE @]

\* A second task calls async_update on instance i while the async_update of
\* the first task is suspended at a transport await.
CallUpdateOverlapping(i) ==
    /\ call.op = "async_update"
    /\ call.inst = i
    /\ call.stack # <<>>
    /\ call2.op = "none"
    /\ LET m == async_update(Self(i))
       IN  /\ Store(i, m)
           /\ call2' = [op |-> "async_update", inst |-> i, arg |-> <<>>,
                        stack |-> m.stack, calls |-> m.calls,
                        answers |-> <<>>, delivered |-> None,
                        exc |-> m.exc, ret |-> None, log |-> m.log,
                        pre_support |-> _support_sound_mode[i],
                        pre_raw |-> _sound_mode_raw[i]]
    /\ UNCHANGED <<call, held>>

\* The transport answers the pending await of the second task.
TransportAnswerOverlapping(o) ==
    /\ call2.stack # <<>>
    /\ o \in ReadAnswers
    /\ LET i == call2.inst
           m == transport_answer(
                    [Self(i) EXCEPT !.stack = call2.stack,
                                    !.calls = call2.calls,
                                    !.log = call2.log], o)
       IN  /\ Store(i, m)
           /\ call2' = [call2 EXCEPT !.stack = m.stack, !.calls = m.calls,
                                     !.exc = m.exc, !.log = m.log,
                                     !.answers = Append(@, o.exc.type),
                                     !.delivered = IF o.exc = NoExc
                                                   THEN Some(o.val) ELSE @]
    /\ UNCHANGED <<call, held>>

\* match_sound_mode(sound_mode_raw) on instance i
CallMatchSoundMode(i, sound_mode_raw) ==
    /\ call.stack = <<>>
    /\ i \in created
    /\ LET r == match_sound_mode(_sound_mode_raw[i], SOUND_MODE_MAPPING,
                                 _sound_mode_map_rev[i], sound_mode_raw)
       IN  /\ SOUND_MODE_MAPPING' = r.map
           /\ _sound_mode_map_rev' = [_sound_mode_map_rev EXCEPT ![i] = r.rev]
           /\ call' = [IdleCall EXCEPT !.op = "match_sound_mode", !.inst = i,
                                       !.arg = sound_mode_raw, !.ret = r.ret,
                                       !.log = r.log]
    /\ UNCHANGED <<device, created, _support_sound_mode, _sound_mode_raw,
                   _is_setup, call2, held>>

\* a read of the property sound_mode of instance i
ReadSoundMode(i) ==
    /\ call.stack = <<>>
    /\ i \in created
    /\ LET r == sound_mode(_sound_mode_raw[i], SOUND_MODE_MAPPING,
                           _sound_mode_map_rev[i])
       IN  /\ SOUND_MODE_MAPPING' = r.map
           /\ _sound_mode_map_rev' = [_sound_mode_map_rev EXCEPT ![i] = r.rev]
           /\ call' = [IdleCall EXCEPT !.op = "sound_mode", !.inst = i,
                                       !.ret = r.ret, !.log = r.log]
    /\ UNCHANGED <<device, created, _support_sound_mode, _sound_mode_raw,
                   _is_setup, call2, held>>

\* a read of the property sound_mode_map of instance i: the caller keeps
\* what it returns
ReadSoundModeMap(i) ==
    /\ call.stack = <<>>
    /\ i \in created
    /\ LET r == sound_mode_map(SOUND_MODE_MAPPING)
       IN  held' = [kind |-> "sound_mode_map", inst |-> i, mutations |-> 0,
                    shares_dict |-> r.shares_dict,
                    shares_values |-> r.shares_values, map |-> r.value,
                    rev |-> <<>>]
    /\ UNCHANGED <<device, created, SOUND_MODE_MAPPING, _support_sound_mode,
                   _sound_mode_raw, _sound_mode_map_rev, _is_setup, call,
                   call2>>

\* a read of the property sound_mode_map_rev of instance i
ReadSoundModeMapRev(i) ==
    /\ call.stack = <<>>
    /\ i \in created
    /\ LET r == sound_mode_map_rev(_sound_mode_map_rev[i])
       IN  held' = [kind |-> "sound_mode_map_rev", inst |-> i,
                    mutations |-> 0, shares_dict |-> r.shares_dict,
                    shares_values |-> r.shares_values, map |-> <<>>,
                    rev |-> r.value]
    /\ UNCHANGED <<device, created, SOUND_MODE_MAPPING, _support_sound_mode,
                   _sound_mode_raw, _sound_mode_map_rev, _is_setup, call,
                   call2>>

\* What the caller does to the dictionary it holds: remove a key, add a key,
\* replace the alias list of a key, append to the alias list of a key. The
\* field value is the list a statement stores, or the one string it stores
\* or appends, in a list.
CallerMutations(kind) ==
    IF kind = "sound_mode_map"
    THEN { [stmt |-> "del", key |-> STEREO, value |-> <<>>],
           [stmt |-> "set", key |-> <<"X">>, value |-> << <<"X">> >>],
           [stmt |-> "set", key |-> AUTO, value |-> << <<"x">> >>],
           [stmt |-> "append", key |-> AUTO, value |-> << <<"x">> >>] }
    ELSE IF kind = "sound_mode_map_rev"
    THEN { [stmt |-> "del", key |-> STEREO, value |-> <<>>],
           [stmt |-> "set", key |-> <<"X">>, value |-> << <<"X">> >>],
           [stmt |-> "set", key |-> STEREO, value |-> << AUTO >>] }
    ELSE {}

\* The dictionary obj after the statement mut.
Mutated(kind, obj, mut) ==
    IF kind = "sound_mode_map"
    THEN CASE mut.stmt = "del" -> odict_del(obj, mut.key)
           [] mut.stmt = "set" -> odict_set(obj, mut.key, mut.value)
           [] mut.stmt = "append" -> odict_append(obj, mut.key, mut.value[1])
    ELSE CASE mut.stmt = "del" -> dict_del(obj, mut.key)
           [] mut.stmt = "set" -> dict_set(obj, mut.key, mut.value[1])

\* The dictionary obj of the resolver after the statement mut on the held
\* structure: the same statement when both are one object, the append when
\* they share the alias lists, nothing when they share nothing.
WrittenThrough(obj, mut) ==
    IF held.shares_dict THEN Mutated(held.kind, obj, mut)
    ELSE IF /\ held.shares_values
            /\ held.kind = "sound_mode_map"
            /\ mut.stmt = "append"
    THEN odict_append(obj, mut.key, mut.value[1])
    ELSE obj

\* the caller changes the structure it holds
MutateReturned(mut) ==
    /\ call.stack = <<>>
    /\ held.mutations < MaxMutations
    /\ mut \in CallerMutations(held.kind)
    /\ IF held.kind = "sound_mode_map"
       THEN /\ Mutated(held.kind, held.map, mut) # held.map
            /\ held' = [held EXCEPT
                            !.map = Mutated(held.kind, held.map, mut),
                            !.mutations = @ + 1]
            /\ SOUND_MODE_MAPPING' = WrittenThrough(SOUND_MODE_MAPPING, mut)
            /\ UNCHANGED _sound_mode_map_rev
       ELSE /\ Mutated(held.kind, held.rev, mut) # held.rev
            /\ held' = [held EXCEPT
                            !.rev = Mutated(held.kind, held.rev, mut),
                            !.mutations = @ + 1]
            /\ _sound_mode_map_rev' =
                   [_sound_mode_map_rev EXCEPT
                       ![held.inst] = WrittenThrough(@, mut)]
            /\ UNCHANGED SOUND_MODE_MAPPING
    /\ UNCHANGED <<device, created, _support_sound_mode, _sound_mode_raw,
                   _is_setup, call, call2>>

Next ==
    \/ \E i \in Instances : CallSetup(i)
    \/ \E i \in Instances : CallUpdate(i)
    \/ \E i \in Instances : CallUpdateSoundMode(i)
    \/ \E i \in Instances, target \in Targets : CallSetSoundMode(i, target)
    \/ \E o \in ReadAnswers \cup CommandAnswers : TransportAnswer(o)
    \/ \E i \in Instances, x \in MatchArgs : CallMatchSoundMode(i, x)
    \/ \E i \in Instances : ReadSoundMode(i)

Spec == Init /\ [][Next]_vars

SpecZones == InitZones /\ [][Next]_vars

\* One resolver of a modern AVR-X receiver whose caller reads the two
\* dictionary accessors and changes what they return, between updates of the
\* raw state and calls of the matcher.
InitCopies ==
    /\ device = [use_avr_2016_update |-> "True", receiver |-> AVR_X]
    /\ created = {1}
    /\ Constructed

AllMutations ==
    CallerMutations("sound_mode_map") \cup CallerMutations("sound_mode_map_rev")

NextCopies ==
    \/ \E i \in Instances : CallUpdateSoundMode(i)
    \/ \E o \in ReadAnswers \cup CommandAnswers : TransportAnswer(o)
    \/ \E i \in Instances, x \in MatchArgs : CallMatchSoundMode(i, x)
    \/ \E i \in Instances : ReadSoundMode(i)
    \/ \E i \in Instances : ReadSoundModeMap(i)
    \/ \E i \in Instances : ReadSoundModeMapRev(i)
    \/ \E mut \in AllMutations : MutateReturned(mut)

SpecCopies == InitCopies /\ [][NextCopies]_vars

\* One resolver whose async_update is called by two tasks of one event
\* loop: the second may start while the first is suspended, and the
\* transport answers the two in any order.
NextOverlap ==
    \/ \E i \in Instances : CallUpdate(i)
    \/ \E i \in Instances : CallUpdateOverlapping(i)
    \/ \E o \in ReadAnswers : TransportAnswer(o)
    \/ \E o \in ReadAnswers : TransportAnswerOverlapping(o)

SpecOverlap == Init /\ [][NextOverlap]_vars

-----------------------------------------------------------------------------
(* What a call did *)

\* The calls to the three transports, without the tag registrations.
TransportCalls(c) ==
    SelectSeq(c.calls,
              LAMBDA x : x.api \in {"appcommand", "status_xml", "get_command"})

Returned(c) == c.stack = <<>> /\ c.exc = NoExc

AlwaysSupported == {AVR_X, AVR_X_2016}

\* The value the accessor sound_mode of instance i returns in this state.
CurrentMode(i) ==
    sound_mode(_sound_mode_raw[i], SOUND_MODE_MAPPING,
               _sound_mode_map_rev[i]).ret

-----------------------------------------------------------------------------
(* Claims *)

\* C1: async_set_sound_mode(t), t not ALL ZONE STEREO, called while the
\* accessor sound_mode returns ALL ZONE STEREO: once the call has returned,
\* the command transport has received a command ending in "ZST OFF", and
\* received it before the mode-select command of that call.
C1_ZstOffBeforeSelect ==
    ( /\ call.op = "async_set_sound_mode"
      /\ call.arg # ALL_ZONE_STEREO
      /\ CurrentMode(call.inst) = Some(ALL_ZONE_STEREO)
      /\ Returned(call) )
    => \E j, k \in 1..Len(call.calls) :
          /\ j < k
          /\ call.calls[j].api = "get_command"
          /\ endswith(call.calls[j].arg, ZST_OFF)
          /\ call.calls[k].api = "get_command"
          /\ call.calls[k].arg = command_sel_sound_mode \o call.arg

\* C2: async_set_sound_mode(ALL ZONE STEREO) sends exactly one command, the
\* all-zone-stereo prefix followed by "ZST ON", and no mode-select command,
\* whatever the raw state and the support flag are.
C2_AllZoneStereoOn ==
    (call.op = "async_set_sound_mode" /\ call.arg = ALL_ZONE_STEREO)
    => /\ TransportCalls(call) =
              << [api |-> "get_command",
                  arg |-> command_set_all_zone_stereo \o ZST_ON] >>
       /\ \A k \in 1..Len(call.calls) :
              call.calls[k].arg # command_sel_sound_mode \o call.arg

\* The call of C2 has returned, on an instance whose mode was something else.
C2_Witness ==
    /\ call.op = "async_set_sound_mode"
    /\ call.arg = ALL_ZONE_STEREO
    /\ Returned(call)
    /\ call.pre_raw.some
    /\ call.pre_support = "True"

\* C3: with a raw state observed, the first match_sound_mode(x) of an x whose
\* uppercase form is not a key of the reverse map returns upper(x), and
\* leaves the entry upper(x) -> [upper(x)] in the mode map and
\* upper(x) -> upper(x) in the reverse map.
C3_FirstMatchReturnsUpper ==
    [][ \A i \in Instances, x \in MatchArgs :
          ( /\ CallMatchSoundMode(i, x)
            /\ _sound_mode_raw[i].some
            /\ upper(x) \notin DOMAIN _sound_mode_map_rev[i] )
          => /\ call'.ret = Some(upper(x))
             /\ odict_has(SOUND_MODE_MAPPING', upper(x))
             /\ odict_get(SOUND_MODE_MAPPING', upper(x)) = <<upper(x)>>
             /\ upper(x) \in DOMAIN _sound_mode_map_rev'[i]
             /\ _sound_mode_map_rev'[i][upper(x)] = upper(x) ]_vars

\* C4: match_sound_mode(x) called again right after the call that
\* self-extended the map for x returns what the first call returned, and
\* leaves the mode map, the reverse map and sound_mode_list as they were.
C4_SelfExtensionIdempotent ==
    [][ \A i \in Instances, x \in MatchArgs :
          ( /\ call.op = "match_sound_mode" /\ call.inst = i /\ call.arg = x
            /\ call.log # <<>>
            /\ CallMatchSoundMode(i, x) )
          => /\ call'.ret = call.ret
             /\ SOUND_MODE_MAPPING' = SOUND_MODE_MAPPING
             /\ _sound_mode_map_rev' = _sound_mode_map_rev
             /\ sound_mode_list(SOUND_MODE_MAPPING')
                    = sound_mode_list(SOUND_MODE_MAPPING) ]_vars

\* The letter-case variants of a raw alias.
CaseVariants(r) == {r, upper(r), lower(r)}

\* C5: in every state where instance i has observed a raw state, for every
\* sound mode m of the mode map and every raw alias r of m,
\* match_sound_mode of r, of upper(r) and of the other case variants of r
\* returns m and changes neither the mode map nor the reverse map.
C5_AliasesMatch ==
    \A i \in created :
        _sound_mode_raw[i].some =>
            \A k \in 1..Len(SOUND_MODE_MAPPING) :
                \A a \in 1..Len(SOUND_MODE_MAPPING[k].aliases) :
                    \A v \in CaseVariants(SOUND_MODE_MAPPING[k].aliases[a]) :
                        LET r == match_sound_mode(_sound_mode_raw[i],
                                     SOUND_MODE_MAPPING,
                                     _sound_mode_map_rev[i], v)
                        IN  /\ r.ret = Some(SOUND_MODE_MAPPING[k].name)
                            /\ r.map = SOUND_MODE_MAPPING
                            /\ r.rev = _sound_mode_map_rev[i]

\* C6: in every state, for every instance, every alias r of every sound mode
\* m of the mode map has the reverse map entry upper(r) -> m, and the reverse
\* map has no other key.
C6_ReverseIndexConsistent ==
    \A i \in created :
        /\ \A k \in 1..Len(SOUND_MODE_MAPPING) :
               \A a \in 1..Len(SOUND_MODE_MAPPING[k].aliases) :
                   LET key == upper(SOUND_MODE_MAPPING[k].aliases[a])
                   IN  /\ key \in DOMAIN _sound_mode_map_rev[i]
                       /\ _sound_mode_map_rev[i][key]
                              = SOUND_MODE_MAPPING[k].name
        /\ \A key \in DOMAIN _sound_mode_map_rev[i] :
               \E k \in 1..Len(SOUND_MODE_MAPPING) :
                   \E a \in 1..Len(SOUND_MODE_MAPPING[k].aliases) :
                       key = upper(SOUND_MODE_MAPPING[k].aliases[a])

Legacy == device.use_avr_2016_update = "False"

\* C7: on the legacy transport, with the support flag not False, an
\* async_update_sound_mode whose two schema reads both fail with a
\* processing error returns without raising, leaves the support flag False
\* and the raw state as it was before the call.
C7_BothSchemasMismatch ==
    ( /\ call.op = "async_update_sound_mode"
      /\ Legacy
      /\ call.pre_support # "False"
      /\ call.answers = <<"AvrProcessingError", "AvrProcessingError">> )
    => /\ Returned(call)
       /\ _support_sound_mode[call.inst] = "False"
       /\ _sound_mode_raw[call.inst] = call.pre_raw

\* The call of C7 on an instance that had a raw state and was supported.
C7_Witness ==
    /\ call.op = "async_update_sound_mode"
    /\ Legacy
    /\ call.pre_support = "True"
    /\ call.pre_raw.some
    /\ call.answers = <<"AvrProcessingError", "AvrProcessingError">>

\* str is value without its trailing blanks.
IsStripped(str, value) ==
    /\ str = <<>> \/ str[Len(str)] # " "
    /\ \E n \in 0..Len(value) : value = str \o blanks(n)

\* C8: on the legacy transport, with the support flag not False, an
\* async_update_sound_mode whose schema #1 read succeeds, or whose schema #1
\* read fails with a processing error and whose schema #2 read succeeds,
\* returns with the support flag True and the raw state equal to the value
\* the successful read delivered, without its trailing whitespace.
C8_SchemaSuccess ==
    ( /\ call.op = "async_update_sound_mode"
      /\ Legacy
      /\ call.pre_support # "False"
      /\ call.answers \in { <<"none">>, <<"AvrProcessingError", "none">> } )
    => /\ Returned(call)
       /\ _support_sound_mode[call.inst] = "True"
       /\ call.delivered.some
       /\ _sound_mode_raw[call.inst].some
       /\ IsStripped(_sound_mode_raw[call.inst].s, call.delivered.s)

\* Schema #2 delivered a padded value after schema #1 did not match.
C8_Witness ==
    /\ call.op = "async_update_sound_mode"
    /\ Legacy
    /\ call.pre_support = "None"
    /\ call.answers = <<"AvrProcessingError", "none">>
    /\ call.delivered.some
    /\ endswith(call.delivered.s, <<" ">>)

\* What C9 says of a step that is an update call on instance i: the call
\* returns at once, without a transport call, and the support flag and the
\* raw state stay as they are.
ShortCircuits(i) ==
    /\ Returned(call')
    /\ TransportCalls(call') = <<>>
    /\ _support_sound_mode'[i] = "False"
    /\ _sound_mode_raw'[i] = _sound_mode_raw[i]

C10_UnsetFlagRaises ==
    ( /\ call.op = "async_update_sound_mode"
      /\ device.use_avr_2016_update = "None" )
    => /\ call.stack = <<>>
       /\ call.exc = NotSetupError
       /\ call.calls = <<>>
       /\ _support_sound_mode[call.inst] = call.pre_support
       /\ _sound_mode_raw[call.inst] = call.pre_raw

\* The call of C10 on an instance whose support flag was already set.
C10_Witness ==
    /\ call.op = "async_update_sound_mode"
    /\ device.use_avr_2016_update = "None"
    /\ call.pre_support = "True"
    /\ call.exc = NotSetupError


\* C11: a transport error that is not a processing error, raised by the
\* modern query, by the schema #1 read or by the schema #2 read, ends
\* async_update_sound_mode with that error, and the support flag and the raw
\* state are what they were before the call.
C11_OtherErrorsPropagate ==
    ( /\ call.op = "async_update_sound_mode"
      /\ call.answers # <<>>
      /\ call.answers[Len(call.answers)] = NetworkError.type )
    => /\ call.stack = <<>>
       /\ call.exc = NetworkError
       /\ _support_sound_mode[call.inst] = call.pre_support
       /\ _sound_mode_raw[call.inst] = call.pre_raw

\* The schema #2 read failed with a network error after a schema #1
\* mismatch, on an instance that had a raw state.
C11_Witness ==
    /\ call.op = "async_update_sound_mode"
    /\ Legacy
    /\ call.answers = <<ProcessingError.type, NetworkError.type>>
    /\ call.pre_support = "True"
    /\ call.pre_raw.some

\* C12: when async_setup has returned without raising, the support flag is
\* no longer None, whatever the receiver family and the transport flag are;
\* for the always supported families it is True and no transport was called.
C12_SetupDecidesSupport ==
    (call.op = "async_setup" /\ Returned(call))
    => /\ _support_sound_mode[call.inst] # "None"
       /\ device.receiver \in AlwaysSupported
              => /\ _support_sound_mode[call.inst] = "True"
                 /\ TransportCalls(call) = <<>>

\* The number of times a call ran the body of async_setup: the tag
\* registrations of line 94.
SetupRuns(c) ==
    Len(SelectSeq(c.calls, LAMBDA x : x.api = "add_appcommand_update_tag"))

\* C13: with the calls serialized, an async_update on an instance that is not
\* set up runs async_setup before anything else, and an async_update on an
\* instance that is set up never runs async_setup: no tag is registered and
\* no setup update cycle is made.
C13_SetupOnceSequential ==
    [][ \A i \in Instances :
          /\ (CallUpdate(i) /\ ~_is_setup[i])
                 => /\ call'.calls # <<>>
                    /\ call'.calls[1].api = "add_appcommand_update_tag"
                    /\ SetupRuns(call') = 1
          /\ (CallUpdate(i) /\ _is_setup[i])
                 => /\ SetupRuns(call') = 0
                    /\ \A k \in 1..Len(call'.stack) :
                           call'.stack[k].fn # "async_setup"
          /\ (call.op = "async_update" /\ call.stack # <<>>
                  /\ call'.op = "async_update")
                 => /\ SetupRuns(call') = SetupRuns(call)
                    /\ _is_setup[i] => _is_setup'[i] ]_vars

\* An async_update that did not run async_setup has read the device.
C13_Witness ==
    /\ call.op = "async_update"
    /\ SetupRuns(call) = 0
    /\ Returned(call)
    /\ call.delivered.some

\* C14: whatever the caller does to a dictionary it got from the accessor
\* sound_mode_map or sound_mode_map_rev (remove a key, add a key, replace an
\* alias list, append to an alias list), the resolver's mode map and reverse
\* map stay as they were, and so does what the accessors and the matcher
\* return afterwards.
C14_AccessorsReturnCopies ==
    [][ \A mut \in AllMutations :
          MutateReturned(mut)
          => /\ SOUND_MODE_MAPPING' = SOUND_MODE_MAPPING
             /\ _sound_mode_map_rev' = _sound_mode_map_rev
             /\ \A i \in created :
                   /\ sound_mode_map(SOUND_MODE_MAPPING').value
                          = sound_mode_map(SOUND_MODE_MAPPING).value
                   /\ sound_mode_map_rev(_sound_mode_map_rev'[i]).value
                          = sound_mode_map_rev(_sound_mode_map_rev[i]).value
                   /\ sound_mode_list(SOUND_MODE_MAPPING')
                          = sound_mode_list(SOUND_MODE_MAPPING)
                   /\ \A x \in MatchArgs :
                         match_sound_mode(_sound_mode_raw'[i],
                                          SOUND_MODE_MAPPING',
                                          _sound_mode_map_rev'[i], x)
                         = match_sound_mode(_sound_mode_raw[i],
                                            SOUND_MODE_MAPPING,
                                            _sound_mode_map_rev[i], x) ]_vars

\* The caller holds a mode map in which it appended to the alias list of
\* AUTO and removed STEREO, of a resolver whose raw state is observed and
\* whose own mode map still has both as they were.
C14_Witness ==
    /\ held.kind = "sound_mode_map"
    /\ held.mutations = 2
    /\ ~odict_has(held.map, STEREO)
    /\ odict_get(held.map, AUTO) = << <<"N","o","n","e">>, <<"x">> >>
    /\ _sound_mode_raw[held.inst].some
    /\ odict_has(SOUND_MODE_MAPPING, STEREO)
    /\ odict_get(SOUND_MODE_MAPPING, AUTO) = << <<"N","o","n","e">> >>

\* C15: with two resolvers made from the same seed table, a self-extension
\* on one of them (match_sound_mode of a string its reverse map does not
\* know, with a raw state observed) leaves the mode map, sound_mode_list and
\* the reverse map of the other as they were, and leaves the seed table the
\* next resolver is made from as it was.
C15_InstancesOwnTheirMaps ==
    [][ \A i \in created, x \in MatchArgs :
          ( /\ CallMatchSoundMode(i, x)
            /\ _sound_mode_raw[i].some
            /\ upper(x) \notin DOMAIN _sound_mode_map_rev[i] )
          => /\ \A j \in created \ {i} :
                   /\ sound_mode_map(SOUND_MODE_MAPPING').value
                          = sound_mode_map(SOUND_MODE_MAPPING).value
                   /\ sound_mode_list(SOUND_MODE_MAPPING')
                          = sound_mode_list(SOUND_MODE_MAPPING)
                   /\ _sound_mode_map_rev'[j] = _sound_mode_map_rev[j]
             /\ SOUND_MODE_MAPPING' = SOUND_MODE_MAPPING ]_vars

\* C16: one call of async_update_sound_mode on the legacy transport reads
\* the status page at most twice, schema #1 first, and schema #2 only when
\* the schema #1 read of this call was answered with AvrProcessingError; on
\* the modern transport it makes exactly one command-aggregation query and
\* no status-page read.
C16_FallbackBoundedOrdered ==
    call.op = "async_update_sound_mode"
    => LET reads == TransportCalls(call)
       IN  /\ Legacy
               => /\ Len(reads) <= 2
                  /\ \A k \in 1..Len(reads) :
                        /\ reads[k].api = "status_xml"
                        /\ reads[k].arg =
                              IF k = 1 THEN <<"status_xml_attrs_01">>
                              ELSE <<"status_xml_attrs_02">>
                  /\ Len(reads) = 2
                        => /\ call.answers # <<>>
                           /\ call.answers[1] = ProcessingError.type
                  /\ Len(call.answers) <= Len(reads)
           /\ device.use_avr_2016_update = "True"
               => reads = << [api |-> "appcommand",
                              arg |-> <<"GetSurroundModeStatus">>] >>

\* A legacy call whose schema #1 read mismatched and whose schema #2 read
\* succeeded has returned.
C16_Witness ==
    /\ call.op = "async_update_sound_mode"
    /\ Legacy
    /\ call.answers = <<ProcessingError.type, NoExc.type>>
    /\ Len(TransportCalls(call)) = 2
    /\ Returned(call)

\* C17: on a resolver whose raw state was never observed, match_sound_mode
\* returns None for every argument, registered alias or not, the accessor
\* sound_mode returns None, and neither changes the mode map or the reverse
\* map.
C17_NoRawStateNoMatch ==
    [][ \A i \in created :
          ~_sound_mode_raw[i].some
          => /\ \A x \in MatchArgs :
                   CallMatchSoundMode(i, x)
                   => /\ call'.ret = None
                      /\ SOUND_MODE_MAPPING' = SOUND_MODE_MAPPING
                      /\ _sound_mode_map_rev' = _sound_mode_map_rev
             /\ ReadSoundMode(i)
                   => /\ call'.ret = None
                      /\ SOUND_MODE_MAPPING' = SOUND_MODE_MAPPING
                      /\ _sound_mode_map_rev' = _sound_mode_map_rev ]_vars

\* match_sound_mode of a string the reverse map does not know has returned
\* None on a resolver without a raw state.
C17_Witness ==
    /\ call.op = "match_sound_mode"
    /\ ~_sound_mode_raw[call.inst].some
    /\ upper(call.arg) \notin DOMAIN _sound_mode_map_rev[call.inst]
    /\ call.ret = None

\* C18: match_sound_mode(x) of a string the reverse map does not know, with
\* a raw state observed, only adds: every key of the mode map before the
\* call is a key after it with the same alias list, and every alias the
\* reverse map resolved before the call resolves to the same mode after it,
\* also when upper(x) is the name of a mode that does not list itself.
C18_SelfExtensionOnlyAdds ==
    [][ \A i \in created, x \in MatchArgs :
          ( /\ CallMatchSoundMode(i, x)
            /\ _sound_mode_raw[i].some
            /\ upper(x) \notin DOMAIN _sound_mode_map_rev[i] )
          => /\ \A k \in 1..Len(SOUND_MODE_MAPPING) :
                   /\ odict_has(SOUND_MODE_MAPPING',
                                SOUND_MODE_MAPPING[k].name)
                   /\ odict_get(SOUND_MODE_MAPPING',
                                SOUND_MODE_MAPPING[k].name)
                          = SOUND_MODE_MAPPING[k].aliases
             /\ \A a \in DOMAIN _sound_mode_map_rev[i] :
                   /\ a \in DOMAIN _sound_mode_map_rev'[i]
                   /\ _sound_mode_map_rev'[i][a] = _sound_mode_map_rev[i][a]
      ]_vars

\* C19: the accessor sound_mode has just returned a value other than None:
\* that value is one of the entries of sound_mode_list as it is now.
C19_ModeIsListed ==
    (call.op = "sound_mode" /\ call.ret.some)
    => \E k \in 1..Len(sound_mode_list(SOUND_MODE_MAPPING)) :
          sound_mode_list(SOUND_MODE_MAPPING)[k] = call.ret.s

\* C20: two async_update tasks on one resolver, the second started while
\* the first is suspended at a transport await: the body of async_setup
\* (the tag registration and what follows it) is run by at most one of
\* them.
C20_SetupOnceOverlapping ==
    ( /\ call.op = "async_update"
      /\ call2.op = "async_update"
      /\ call2.inst = call.inst )
    => SetupRuns(call) + SetupRuns(call2) <= 1

====
